---- MODULE Spec2Model ----
(***************************************************************************)
(* Model of the slash-command responder of slite-docs-bot.                 *)
(*                                                                         *)
(* One behaviour of the model is the handling of one inbound request by    *)
(* one of the handler variants of the repository:                          *)
(*   "main"  : src/api/index.js        (timeouts, modern+legacy endpoints, *)
(*                                      clarifier raced against a timer)   *)
(*   "early" : src/unnamed/part_001    (no timeouts, modern endpoints)     *)
(* The backends (Slite search / get, the chat-completion API) are the      *)
(* environment: what they answer is chosen nondeterministically when the   *)
(* answer arrives.                                                         *)
(*                                                                         *)
(* Strings are modelled by their structure:                                *)
(*   - the query text is a sequence over Chars, where "sp" is a whitespace *)
(*     character, "w" a word character and "G" one occurrence of one of    *)
(*     the generic-intent phrases of the handler's regular expression;     *)
(*   - a document body is a run-length encoded string: a sequence of runs  *)
(*     [c |-> class, n |-> count], so that bodies longer than the 280      *)
(*     character cap are representable.                                    *)
(* A backend response is taken to arrive whole (headers and body).         *)
(***************************************************************************)
EXTENDS Integers, Sequences, FiniteSets, TLC

\* ---------------------------------------------------------------- bounds
MaxLen == 2     \* longest query text, in Chars
MaxHits == 2    \* longest hit list a search backend returns
MaxRuns == 2    \* longest document body, in runs

\* ------------------------------------------------------ program constants
SearchBudget == 1200
GetBudget == 1200
ClarifyBudget == 1400
SnippetCap == 280
PlatformDeadline == 3000

\* --------------------------------------------------------------- strings
Chars == {"sp", "w", "G"}

SeqsUpTo(S, n) == UNION {[1..k -> S] : k \in 0..n}

Texts == SeqsUpTo(Chars, MaxLen)

RECURSIVE TrimLeft(_)
TrimLeft(s) ==
  IF s = <<>> THEN <<>>
  ELSE IF Head(s) = "sp" THEN TrimLeft(Tail(s)) ELSE s

RECURSIVE TrimRight(_)
TrimRight(s) ==
  IF s = <<>> THEN <<>>
  ELSE IF s[Len(s)] = "sp" THEN TrimRight(SubSeq(s, 1, Len(s) - 1)) ELSE s

\* String.prototype.trim
Trim(s) == TrimRight(TrimLeft(s))

\* /\b(how to work a lead|lead process|...)\b/i.test(text): an occurrence
\* of a phrase with a word boundary on both sides
IsGeneric(t) ==
  \E i \in 1..Len(t) :
    /\ t[i] = "G"
    /\ (IF i = 1 THEN TRUE ELSE t[i - 1] = "sp")
    /\ (IF i = Len(t) THEN TRUE ELSE t[i + 1] = "sp")

\* ---------------------------------------------------------------- request
\* the value of the "text" field of the body
StrField(t) == [k |-> "str", v |-> t]
AbsentField == [k |-> "absent", v |-> <<>>]
ArrayField == [k |-> "array", v |-> <<>>]   \* text: [] in a pre-parsed body

TextFields == {StrField(t) : t \in Texts} \cup {AbsentField, ArrayField}

\* a form-encoded string with any text, or a pre-parsed object (which parses
\* like the string with the same text unless the field is not a string)
ObjectFields == {AbsentField, ArrayField, StrField(<<>>), StrField(<<"w">>)}

Bodies ==
  {[kind |-> "none", text |-> AbsentField]}
  \cup {[kind |-> "string", text |-> f] : f \in TextFields \ {ArrayField}}
  \cup {[kind |-> "object", text |-> f] : f \in ObjectFields}

Requests ==
  {[method |-> "POST", body |-> b] : b \in Bodies}
  \cup {[method |-> "GET", body |-> [kind |-> "none", text |-> AbsentField]]}

\* the bodies sent to the detached handler: none, an unparsed form string,
\* or a parsed object; callback says whether the body carries a response_url
DetachedBodies ==
  {[kind |-> "none", text |-> AbsentField, callback |-> FALSE]}
  \cup {[kind |-> "string", text |-> StrField(<<"w">>), callback |-> cb] :
          cb \in BOOLEAN}
  \cup {[kind |-> "object", text |-> f, callback |-> cb] :
          f \in {AbsentField, StrField(<<"w">>)}, cb \in BOOLEAN}

DetachedRequests ==
  {[method |-> "POST", body |-> b] : b \in DetachedBodies}
  \cup {[method |-> "GET",
         body |-> [kind |-> "none", text |-> AbsentField, callback |-> FALSE]]}

\* const { response_url } = req.body: the field of a parsed object, and
\* undefined when the body is a string
ResponseUrl(r) ==
  IF r.body.kind = "object" /\ r.body.callback THEN "url" ELSE "undefined"

\* new URLSearchParams(raw).get("text"): the field as a string, or absent
ParamsGet(body) ==
  CASE body.kind = "none" -> AbsentField
    [] body.kind = "string" -> body.text
    [] body.kind = "object" ->
         IF body.text.k = "array" THEN StrField(<<>>) ELSE body.text

\* req.body && req.body.text
BodyText(body) ==
  IF body.kind = "object" THEN body.text ELSE AbsentField

Truthy(f) == f.k = "array" \/ (f.k = "str" /\ f.v # <<>>)

\* parseSlashBody without the trim
parseSlashBodyNoTrim(req) ==
  LET p == ParamsGet(req.body)
      b == BodyText(req.body)
      text == IF Truthy(p) THEN p
              ELSE IF Truthy(b) THEN b
              ELSE StrField(<<>>)
  IN IF text.k = "str"
       THEN [ok |-> TRUE, text |-> text.v, err |-> ""]
       ELSE [ok |-> FALSE, text |-> <<>>, err |-> "TypeError: trim is not a function"]

\* parseSlashBody: the trimmed text, or the TypeError of calling .trim on a
\* value that is not a string
parseSlashBody(req) ==
  LET p == ParamsGet(req.body)
      b == BodyText(req.body)
      text == IF Truthy(p) THEN p
              ELSE IF Truthy(b) THEN b
              ELSE StrField(<<>>)
  IN IF text.k = "str"
       THEN [ok |-> TRUE, text |-> Trim(text.v), err |-> ""]
       ELSE [ok |-> FALSE, text |-> <<>>, err |-> "TypeError: trim is not a function"]

\* ------------------------------------------------------- document bodies
\* a run of n characters of class c: word characters, spaces, newlines
Run(c, n) == [c |-> c, n |-> n]
WsClasses == {"sp", "nl"}
Runs == {Run("w", SnippetCap), Run("sp", 1), Run("nl", 2)}
Strs == SeqsUpTo(Runs, MaxRuns)

RECURSIVE StrLen(_)
StrLen(s) == IF s = <<>> THEN 0 ELSE Head(s).n + StrLen(Tail(s))

\* s.replace(/\s+/g, " "): every maximal run of whitespace becomes one space
RECURSIVE CollapseFrom(_, _)
CollapseFrom(s, inWs) ==
  IF s = <<>> THEN <<>>
  ELSE IF Head(s).c \in WsClasses
         THEN IF inWs THEN CollapseFrom(Tail(s), TRUE)
              ELSE <<Run("sp", 1)>> \o CollapseFrom(Tail(s), TRUE)
         ELSE <<Head(s)>> \o CollapseFrom(Tail(s), FALSE)

Collapse(s) == CollapseFrom(s, FALSE)

\* s.slice(0, cap)
RECURSIVE Slice(_, _)
Slice(s, cap) ==
  IF s = <<>> \/ cap <= 0 THEN <<>>
  ELSE IF Head(s).n <= cap
         THEN <<Head(s)>> \o Slice(Tail(s), cap - Head(s).n)
         ELSE <<Run(Head(s).c, cap)>>

\* the snippet without the whitespace replacement
SnippetNoCollapse(md) == Slice(md, SnippetCap)

\* (md || "").replace(/\s+/g, " ").slice(0, 280)
Snippet(md) == Slice(Collapse(md), SnippetCap)

\* ------------------------------------------------------ backend payloads
NoteIds == {"n1", "n2"}
NullHit == [null |-> TRUE, noteId |-> ""]
Hit(id) == [null |-> FALSE, noteId |-> id]
HitValues == {Hit(id) : id \in NoteIds} \cup {NullHit}
HitLists == SeqsUpTo(HitValues, MaxHits)

\* a field of a note: absent, a string, or a value that is not a string
AbsentStr == [k |-> "absent", s |-> <<>>]
NonStr == [k |-> "nonstr", s |-> <<>>]
Str(s) == [k |-> "str", s |-> s]
ShortText == <<Run("w", 1)>>

\* note.title is "" when the note has no title
Notes ==
  [title : {"", "SOP"},
   markdown : {AbsentStr, NonStr} \cup {Str(s) : s \in Strs},
   text : {AbsentStr}]
  \cup [title : {"", "SOP"}, markdown : {AbsentStr}, text : {Str(ShortText)}]

NoNote == [title |-> "", markdown |-> AbsentStr, text |-> AbsentStr]

\* the body of a response: json says what parsing it gives
Body(json, h, note) == [json |-> json, hits |-> h, note |-> note]
NoBody == Body("unparseable", <<>>, NoNote)

\* search: not JSON at all, JSON whose "hits" is not an array, or JSON with
\* an array of hits
SearchBodies ==
  {NoBody, Body("nohits", <<>>, NoNote)}
  \cup {Body("hits", h, NoNote) : h \in HitLists}

\* get: not JSON, JSON null, or a note
GetBodies ==
  {NoBody, Body("null", <<>>, NoNote)}
  \cup {Body("note", <<>>, n) : n \in Notes}

Ok(status) == status >= 200 /\ status <= 299

\* the body of a response that is not ok is never read
ResponsesOf(bodies) ==
  {[status |-> 200, body |-> b] : b \in bodies}
  \cup {[status |-> st, body |-> NoBody] : st \in {404, 500}}

NoResponse == [status |-> 0, body |-> NoBody]

\* what the transport of one fetch does: a response arrives, the connection
\* fails, or nothing arrives until the caller's timer fires
EventsOf(bodies) ==
  {[kind |-> "response", res |-> r] : r \in ResponsesOf(bodies)}
  \cup {[kind |-> "neterr", res |-> NoResponse],
        [kind |-> "timeout", res |-> NoResponse]}

SearchEvents == EventsOf(SearchBodies)
GetEvents == EventsOf(GetBodies)

\* the outcome of a call, as logged
OutcomeOf(ev) ==
  CASE ev.kind = "neterr" -> "neterr"
    [] ev.kind = "timeout" -> "timeout"
    [] ev.kind = "response" ->
         IF Ok(ev.res.status) THEN ev.res.body.json
         ELSE IF ev.res.status = 404 THEN "404" ELSE "500"

\* what the chat-completion call does when it settles
LlmOutcomes == {"content", "empty", "throw"}

\* ------------------------------------------------------------- clarifier
\* the texts clarifyingMessage can return, as sequences of lines (the
\* typographic apostrophe, bullet and dash of the source are written ', *
\* and -)
HeaderLine ==
  "There isn't a document with that information directly. Can you be more specific so I can find what you need?"

\* the text the timeout promise resolves with
StaticTimeoutText ==
  <<HeaderLine,
    "* Google LSA - Message",
    "* Google LSA - Call",
    "* Google PPC - Website",
    "* Meta Lead Form",
    "* RealScout",
    "* Open House / Sign Call",
    "* Referral or Zillow/Flex">>

\* the text the catch block of the ask promise returns
StaticCatchText ==
  <<HeaderLine,
    "* Google LSA - Message",
    "* Google LSA - Call",
    "* Google PPC - Website",
    "* Meta Lead Form",
    "* RealScout",
    "* Open House / Sign Call",
    "* Referral or Zillow/Flex">>

\* out || `There isn't a document ...`: the line without the options
StaticShort == <<HeaderLine>>

\* a completion of the model, trimmed and not empty
LlmText == <<"model completion">>

\* part_001: the text of the catch block, and the undefined that
\* completion.choices?.[0]?.message?.content?.trim() gives without content
EarlyStaticText ==
  <<HeaderLine,
    "* Google LSA - Message",
    "* Google LSA - Call",
    "* Google PPC - Website",
    "* Meta Lead Form",
    "* RealScout",
    "* Open House / Sign Call",
    "* Referral or Zillow/Flex">>

Undefined == <<"undefined">>

\* ----------------------------------------------------------------- state
VARIABLES
  variant,   \* which handler handles the request
  req,       \* the inbound request
  hasKey,    \* process.env.OPENAI_API_KEY as the clarifier found it:
             \* "unread" until it is read, then "set" or "unset"
  pc,        \* where the handler is suspended
  text,      \* the parsed query
  hits,      \* what sliteSearch returned
  doc,       \* what sliteGet returned (topRaw)
  msg,       \* what clarifyingMessage returned
  replies,   \* the payloads written to the HTTP response, in order
  calls,     \* the backend calls made, in order, with their outcome
  llm,       \* the chat-completion call: "idle", "pending", "settled"
  ctimer,    \* the clarifier's timer: "none", "armed", "fired"
  race,      \* Promise.race of the clarifier: "none", "open", "ask", "timeout"
  caught,    \* the message of the error caught by the handler's catch
  elapsed    \* milliseconds spent waiting for timers

vars == <<variant, req, hasKey, pc, text, hits, doc, msg, replies, calls,
          llm, ctimer, race, caught, elapsed>>

Variants == {"main", "early", "detached"}

NoDoc == [null |-> TRUE, note |-> NoNote]

Init ==
  /\ variant \in Variants
  /\ req \in IF variant = "detached" THEN DetachedRequests ELSE Requests
  /\ hasKey = "unread"
  /\ pc = IF variant = "detached" THEN "d_start" ELSE "start"
  /\ text = <<>>
  /\ hits = <<>>
  /\ doc = NoDoc
  /\ msg = <<>>
  /\ replies = <<>>
  /\ calls = <<>>
  /\ llm = "idle"
  /\ ctimer = "none"
  /\ race = "none"
  /\ caught = ""
  /\ elapsed = 0

\* --------------------------------------------------------------- replies
EmptyStr == <<>>

\* res.status(st).json({ response_type, text })
\* kind names the template of the text, msg its variable part as a sequence
\* of pieces; ellipsis says whether the text has
\* the quoted excerpt line that ends with the ellipsis character
Reply(st, rtype, kind, m, title, snippet) ==
  [status |-> st, response_type |-> rtype, kind |-> kind, msg |-> m,
   title |-> title, snippet |-> snippet, ellipsis |-> snippet # EmptyStr]

MethodReply == Reply(405, "none", "method", <<"Use POST">>, "", EmptyStr)
UsageReply == Reply(200, "ephemeral", "usage", <<"Usage: /ask your question">>, "", EmptyStr)
ClarifyReply(m) == Reply(200, "ephemeral", "clarify", m, "", EmptyStr)

\* the top-match reply posted to the channel
TopReplyInChannel(title, snippet) ==
  Reply(200, "in_channel", "top", <<>>, title, snippet)

\* "Top match" with the title and the excerpt
TopReply(title, snippet) == Reply(200, "ephemeral", "top", <<>>, title, snippet)

\* the catch block answering with a server error status
ErrorReplyStatus500(err) ==
  Reply(500, "ephemeral", "error", <<"Error: ", err>>, "", EmptyStr)

\* the handler's catch: text "Error: " + (err.message || String(err))
ErrorReply(err) == Reply(200, "ephemeral", "error", <<"Error: ", err>>, "", EmptyStr)

\* ----------------------------------------------------------- call log
\* a backend call as it is issued: timer is the state of the timer that
\* fetchWithTimeout armed for it ("none" when the call has no timer)
Call(svc, endpoint, query, noteId, budget, timer) ==
  [svc |-> svc, endpoint |-> endpoint, query |-> query, noteId |-> noteId,
   budget |-> budget, timer |-> timer,
   outcome |-> "pending", completion |-> "pending", err |-> "",
   sent |-> NoResponse, res |-> NoResponse]

Last(log) == log[Len(log)]

\* ------------------------------------------------- index.js: the helpers
\* fetchWithTimeout turning the abort of its timer into a returned value
fetchWithTimeoutAsValue(ev) ==
  CASE ev.kind = "response" ->
         [completion |-> "return", res |-> ev.res, err |-> "", timer |-> "cleared"]
    [] ev.kind = "neterr" ->
         [completion |-> "throw", res |-> NoResponse, err |-> "fetch failed",
          timer |-> "cleared"]
    [] ev.kind = "timeout" ->
         [completion |-> "return", res |-> NoResponse, err |-> "", timer |-> "fired"]

\* fetchWithTimeout clearing its timer after the await only: a rejection of
\* fetch skips the clearTimeout
fetchWithTimeoutNoFinally(ev) ==
  CASE ev.kind = "response" ->
         [completion |-> "return", res |-> ev.res, err |-> "", timer |-> "cleared"]
    [] ev.kind = "neterr" ->
         [completion |-> "throw", res |-> NoResponse, err |-> "fetch failed",
          timer |-> "armed"]
    [] ev.kind = "timeout" ->
         [completion |-> "throw", res |-> NoResponse, err |-> "timeout",
          timer |-> "fired"]

\* fetchWithTimeout, from the event of its fetch to its completion: it
\* returns the response, or the rejection of fetch (a network error, or the
\* abort of the timer) propagates through the finally that clears the timer
fetchWithTimeout(ev) ==
  CASE ev.kind = "response" ->
         [completion |-> "return", res |-> ev.res, err |-> "", timer |-> "cleared"]
    [] ev.kind = "neterr" ->
         [completion |-> "throw", res |-> NoResponse, err |-> "fetch failed",
          timer |-> "cleared"]
    [] ev.kind = "timeout" ->
         [completion |-> "throw", res |-> NoResponse, err |-> "timeout",
          timer |-> "fired"]

\* the log once the call in progress has completed with c on event ev
Settle(log, ev, c) ==
  [log EXCEPT ![Len(log)] =
     [@ EXCEPT !.outcome = OutcomeOf(ev), !.completion = c.completion,
               !.err = c.err, !.timer = c.timer, !.sent = ev.res, !.res = c.res]]

\* the time the handler waited for the event
Waited(ev, budget) == IF ev.kind = "timeout" THEN budget ELSE 0

\* Array.isArray(json?.hits) ? json.hits : []
HitsOf(body) == IF body.json = "hits" THEN body.hits ELSE <<>>

\* sliteSearch going on to the legacy endpoint after any non-success status
sliteSearchModernAnyStatus(c) ==
  IF c.completion = "return"
    THEN IF Ok(c.res.status)
           THEN IF c.res.body.json = "unparseable"
                  THEN [legacy |-> TRUE, hits |-> <<>>]
                  ELSE [legacy |-> FALSE, hits |-> HitsOf(c.res.body)]
           ELSE [legacy |-> TRUE, hits |-> <<>>]
    ELSE [legacy |-> TRUE, hits |-> <<>>]

\* sliteSearch, first try block: what it returns, or that it goes on to the
\* legacy endpoint
sliteSearchModern(c) ==
  IF c.completion = "return"
    THEN IF Ok(c.res.status)
           THEN IF c.res.body.json = "unparseable"
                  THEN [legacy |-> TRUE, hits |-> <<>>]
                  ELSE [legacy |-> FALSE, hits |-> HitsOf(c.res.body)]
           ELSE IF c.res.status # 404
                  THEN [legacy |-> FALSE, hits |-> <<>>]
                  ELSE [legacy |-> TRUE, hits |-> <<>>]
    ELSE [legacy |-> TRUE, hits |-> <<>>]

\* sliteSearch, second try block
sliteSearchLegacy(c) ==
  IF c.completion = "return" /\ Ok(c.res.status) /\ c.res.body.json # "unparseable"
    THEN HitsOf(c.res.body)
    ELSE <<>>

\* await r.json() of a get response: null or the document
DocOf(body) ==
  IF body.json = "note" THEN [null |-> FALSE, note |-> body.note] ELSE NoDoc

\* sliteGet, first try block
sliteGetModern(c) ==
  IF c.completion = "return"
    THEN IF Ok(c.res.status)
           THEN IF c.res.body.json = "unparseable"
                  THEN [legacy |-> TRUE, doc |-> NoDoc]
                  ELSE [legacy |-> FALSE, doc |-> DocOf(c.res.body)]
           ELSE IF c.res.status # 404
                  THEN [legacy |-> FALSE, doc |-> NoDoc]
                  ELSE [legacy |-> TRUE, doc |-> NoDoc]
    ELSE [legacy |-> TRUE, doc |-> NoDoc]

\* sliteGet, second try block
sliteGetLegacy(c) ==
  IF c.completion = "return" /\ Ok(c.res.status) /\ c.res.body.json # "unparseable"
    THEN DocOf(c.res.body)
    ELSE NoDoc

\* clarifyingMessage without the timer of its race
clarifyingMessageNoTimer(q, budget) ==
  /\ ctimer' = ctimer
  /\ \E key \in {"set", "unset"} :
       /\ hasKey' = key
       /\ IF key = "set"
            THEN /\ calls' = Append(calls, Call("llm", "chat", q, "", budget, "none"))
                 /\ llm' = "pending"
                 /\ race' = "open"
                 /\ msg' = msg
                 /\ pc' = "clarify_wait"
            ELSE /\ calls' = calls
                 /\ llm' = llm
                 /\ race' = "ask"
                 /\ msg' = StaticCatchText
                 /\ pc' = "clarified"

\* clarifyingMessage up to its return of Promise.race: the timer is armed;
\* the credential is
\* read; without it the ask promise is already settled with the static text,
\* otherwise the chat-completion call is issued
clarifyingMessage(q, budget) ==
  /\ ctimer' = "armed"
  /\ \E key \in {"set", "unset"} :
       /\ hasKey' = key
       /\ IF key = "set"
            THEN /\ calls' = Append(calls, Call("llm", "chat", q, "", budget, "none"))
                 /\ llm' = "pending"
                 /\ race' = "open"
                 /\ msg' = msg
                 /\ pc' = "clarify_wait"
            ELSE /\ calls' = calls
                 /\ llm' = llm
                 /\ race' = "ask"
                 /\ msg' = StaticCatchText
                 /\ pc' = "clarified"

\* the ask promise with a catch block that returns the line without options
AskResultShortOnThrow(outcome) ==
  CASE outcome = "content" -> LlmText
    [] outcome = "empty" -> StaticShort
    [] outcome = "throw" -> StaticShort

\* what the ask promise resolves to when the chat-completion call settles
AskResult(outcome) ==
  CASE outcome = "content" -> LlmText
    [] outcome = "empty" -> StaticShort
    [] outcome = "throw" -> StaticCatchText

\* the handler's catch block
CatchAll(err) ==
  /\ caught' = err
  /\ replies' = Append(replies, ErrorReply(err))
  /\ pc' = "done"

\* --------------------------------------------- index.js: the main handler

\* if (req.method !== "POST") return res.status(405).send("Use POST")
RejectMethod ==
  /\ pc = "start"
  /\ req.method # "POST"
  /\ replies' = Append(replies, MethodReply)
  /\ pc' = "done"
  /\ UNCHANGED <<variant, req, hasKey, text, hits, doc, msg, calls, llm,
                 ctimer, race, caught, elapsed>>

\* parseSlashBody throws inside the try
ParseFails ==
  /\ pc = "start"
  /\ req.method = "POST"
  /\ ~parseSlashBody(req).ok
  /\ CatchAll(parseSlashBody(req).err)
  /\ UNCHANGED <<variant, req, hasKey, text, hits, doc, msg, calls, llm,
                 ctimer, race, elapsed>>

\* if (!text) return the usage reply
ReplyUsage ==
  /\ pc = "start"
  /\ req.method = "POST"
  /\ parseSlashBody(req).ok
  /\ parseSlashBody(req).text = <<>>
  /\ replies' = Append(replies, UsageReply)
  /\ pc' = "done"
  /\ UNCHANGED <<variant, req, hasKey, text, hits, doc, msg, calls, llm,
                 ctimer, race, caught, elapsed>>

\* generic query: hits = [] without a search, then clarifyingMessage
StartGeneric ==
  /\ variant = "main"
  /\ pc = "start"
  /\ req.method = "POST"
  /\ parseSlashBody(req).ok
  /\ parseSlashBody(req).text # <<>>
  /\ IsGeneric(parseSlashBody(req).text)
  /\ text' = parseSlashBody(req).text
  /\ clarifyingMessage(parseSlashBody(req).text, ClarifyBudget)
  /\ UNCHANGED <<variant, req, hits, doc, replies, caught, elapsed>>

\* any other query: await sliteSearch(text, 3, 1200), which issues the
\* fetch to the modern endpoint
StartSearch ==
  /\ variant = "main"
  /\ pc = "start"
  /\ req.method = "POST"
  /\ parseSlashBody(req).ok
  /\ parseSlashBody(req).text # <<>>
  /\ ~IsGeneric(parseSlashBody(req).text)
  /\ text' = parseSlashBody(req).text
  /\ calls' = Append(calls, Call("search", "modern", parseSlashBody(req).text, "",
                                 SearchBudget, "armed"))
  /\ pc' = "search_modern"
  /\ UNCHANGED <<variant, req, hasKey, hits, doc, msg, replies, llm, ctimer,
                 race, caught, elapsed>>

\* the fetch to the modern search endpoint settles
SearchModern ==
  /\ variant = "main"
  /\ pc = "search_modern"
  /\ \E ev \in SearchEvents :
       LET c == fetchWithTimeout(ev)
           s == sliteSearchModern(c)
           log == Settle(calls, ev, c)
       IN /\ elapsed' = elapsed + Waited(ev, SearchBudget)
          /\ IF s.legacy
               THEN /\ calls' = Append(log, Call("search", "legacy", text, "",
                                                 SearchBudget, "armed"))
                    /\ pc' = "search_legacy"
                    /\ hits' = hits
               ELSE /\ calls' = log
                    /\ pc' = "searched"
                    /\ hits' = s.hits
  /\ UNCHANGED <<variant, req, hasKey, text, doc, msg, replies, llm, ctimer,
                 race, caught>>

\* the legacy search without its try/catch: a rejection reaches the handler
SearchLegacyNoCatch ==
  /\ variant = "main"
  /\ pc = "search_legacy"
  /\ \E ev \in SearchEvents :
       LET c == fetchWithTimeout(ev)
       IN /\ elapsed' = elapsed + Waited(ev, SearchBudget)
          /\ calls' = Settle(calls, ev, c)
          /\ IF c.completion = "throw"
               THEN CatchAll(c.err) /\ hits' = hits
               ELSE /\ hits' = sliteSearchLegacy(c)
                    /\ pc' = "searched"
                    /\ UNCHANGED <<caught, replies>>
  /\ UNCHANGED <<variant, req, hasKey, text, doc, msg, llm, ctimer, race>>

\* the fetch to the legacy search endpoint settles
SearchLegacy ==
  /\ variant = "main"
  /\ pc = "search_legacy"
  /\ \E ev \in SearchEvents :
       LET c == fetchWithTimeout(ev)
       IN /\ elapsed' = elapsed + Waited(ev, SearchBudget)
          /\ calls' = Settle(calls, ev, c)
          /\ hits' = sliteSearchLegacy(c)
          /\ pc' = "searched"
  /\ UNCHANGED <<variant, req, hasKey, text, doc, msg, replies, llm, ctimer,
                 race, caught>>

\* the test on hits.length inverted: no hits goes on to hits[0].noteId
ClarifyNoHitsInverted ==
  /\ variant = "main"
  /\ pc = "searched"
  /\ hits = <<>>
  /\ CatchAll("TypeError: Cannot read properties of undefined")
  /\ UNCHANGED <<variant, req, hasKey, text, hits, doc, msg, calls, llm,
                 ctimer, race, elapsed>>

\* if (generic || !hits.length): no hits, ask for clarification
ClarifyNoHits ==
  /\ variant = "main"
  /\ pc = "searched"
  /\ hits = <<>>
  /\ clarifyingMessage(text, ClarifyBudget)
  /\ UNCHANGED <<variant, req, text, hits, doc, replies, caught, elapsed>>

\* hits[0].noteId throws when the first hit is null
TopHitNull ==
  /\ variant = "main"
  /\ pc = "searched"
  /\ hits # <<>>
  /\ hits[1].null
  /\ CatchAll("TypeError: Cannot read properties of null")
  /\ UNCHANGED <<variant, req, hasKey, text, hits, doc, msg, calls, llm,
                 ctimer, race, elapsed>>

\* await sliteGet(hits[0].noteId, 1200), which issues the fetch to the
\* modern endpoint
StartGet ==
  /\ variant = "main"
  /\ pc = "searched"
  /\ hits # <<>>
  /\ ~hits[1].null
  /\ calls' = Append(calls, Call("get", "modern", <<>>, hits[1].noteId,
                                 GetBudget, "armed"))
  /\ pc' = "get_modern"
  /\ UNCHANGED <<variant, req, hasKey, text, hits, doc, msg, replies, llm,
                 ctimer, race, caught, elapsed>>

\* the fetch to the modern get endpoint settles
GetModern ==
  /\ variant = "main"
  /\ pc = "get_modern"
  /\ \E ev \in GetEvents :
       LET c == fetchWithTimeout(ev)
           g == sliteGetModern(c)
           log == Settle(calls, ev, c)
       IN /\ elapsed' = elapsed + Waited(ev, GetBudget)
          /\ IF g.legacy
               THEN /\ calls' = Append(log, Call("get", "legacy", <<>>,
                                                 Last(calls).noteId, GetBudget, "armed"))
                    /\ pc' = "get_legacy"
                    /\ doc' = doc
               ELSE /\ calls' = log
                    /\ pc' = "got"
                    /\ doc' = g.doc
  /\ UNCHANGED <<variant, req, hasKey, text, hits, msg, replies, llm, ctimer,
                 race, caught>>

\* the legacy get without its try/catch: a rejection reaches the handler
GetLegacyNoCatch ==
  /\ variant = "main"
  /\ pc = "get_legacy"
  /\ \E ev \in GetEvents :
       LET c == fetchWithTimeout(ev)
       IN /\ elapsed' = elapsed + Waited(ev, GetBudget)
          /\ calls' = Settle(calls, ev, c)
          /\ IF c.completion = "throw"
               THEN CatchAll(c.err) /\ doc' = doc
               ELSE /\ doc' = sliteGetLegacy(c)
                    /\ pc' = "got"
                    /\ UNCHANGED <<caught, replies>>
  /\ UNCHANGED <<variant, req, hasKey, text, hits, msg, llm, ctimer, race>>

\* the fetch to the legacy get endpoint settles
GetLegacy ==
  /\ variant = "main"
  /\ pc = "get_legacy"
  /\ \E ev \in GetEvents :
       LET c == fetchWithTimeout(ev)
       IN /\ elapsed' = elapsed + Waited(ev, GetBudget)
          /\ calls' = Settle(calls, ev, c)
          /\ doc' = sliteGetLegacy(c)
          /\ pc' = "got"
  /\ UNCHANGED <<variant, req, hasKey, text, hits, msg, replies, llm, ctimer,
                 race, caught>>

\* topRaw?.note?.title || "Document"
TitleOf(d) == IF d.null \/ d.note.title = "" THEN "Document" ELSE d.note.title

\* a note field in a boolean context
FieldTruthy(f) == f.k = "nonstr" \/ (f.k = "str" /\ f.s # <<>>)

\* topRaw?.note?.content?.markdown || topRaw?.note?.content?.text || ""
MdOf(d) ==
  IF d.null THEN Str(<<>>)
  ELSE IF FieldTruthy(d.note.markdown) THEN d.note.markdown
  ELSE IF FieldTruthy(d.note.text) THEN d.note.text
  ELSE Str(<<>>)

\* (md || "").replace throws when md is not a string
FormatFails ==
  /\ pc = "got"
  /\ MdOf(doc).k = "nonstr"
  /\ CatchAll("TypeError: replace is not a function")
  /\ UNCHANGED <<variant, req, hasKey, text, hits, doc, msg, calls, llm,
                 ctimer, race, elapsed>>

\* the answer path handing the fetched document to the model before replying
ReplyTopViaModel ==
  /\ pc = "got"
  /\ MdOf(doc).k = "str"
  /\ clarifyingMessage(text, ClarifyBudget)
  /\ UNCHANGED <<variant, req, text, hits, doc, replies, caught, elapsed>>

\* the "Top match" reply with title and snippet
ReplyTop ==
  /\ pc = "got"
  /\ MdOf(doc).k = "str"
  /\ replies' = Append(replies, TopReply(TitleOf(doc), Snippet(MdOf(doc).s)))
  /\ pc' = "done"
  /\ UNCHANGED <<variant, req, hasKey, text, hits, doc, msg, calls, llm,
                 ctimer, race, caught, elapsed>>

\* the log once the chat-completion call has settled with outcome o
SettleLlm(log, o) ==
  [log EXCEPT ![Len(log)] =
     [@ EXCEPT !.outcome = o,
               !.completion = IF o = "throw" THEN "throw" ELSE "return"]]

\* the chat-completion call settles and its text replaces the clarifier's
\* text even after the timer has won the race
LlmSettlesLateOverrides ==
  /\ variant = "main"
  /\ llm = "pending"
  /\ \E o \in LlmOutcomes :
       /\ calls' = SettleLlm(calls, o)
       /\ msg' = AskResult(o)
       /\ IF race = "open"
            THEN /\ race' = "ask"
                 /\ pc' = "clarified"
            ELSE UNCHANGED <<race, pc>>
  /\ llm' = "settled"
  /\ UNCHANGED <<variant, req, hasKey, text, hits, doc, replies, ctimer,
                 caught, elapsed>>

\* the chat-completion call settles: the ask promise resolves, and wins the
\* race unless the timer has already won it
LlmSettles ==
  /\ variant = "main"
  /\ llm = "pending"
  /\ \E o \in LlmOutcomes :
       /\ calls' = SettleLlm(calls, o)
       /\ IF race = "open"
            THEN /\ race' = "ask"
                 /\ msg' = AskResult(o)
                 /\ pc' = "clarified"
            ELSE UNCHANGED <<race, msg, pc>>
  /\ llm' = "settled"
  /\ UNCHANGED <<variant, req, hasKey, text, hits, doc, replies, ctimer,
                 caught, elapsed>>

\* the clarifier awaiting the ask promise alone: the timer fires and the
\* race stays open
ClarifyTimerFiresNoSettle ==
  /\ variant = "main"
  /\ ctimer = "armed"
  /\ ctimer' = "fired"
  /\ elapsed' = IF race = "open" THEN elapsed + ClarifyBudget ELSE elapsed
  /\ UNCHANGED <<variant, req, hasKey, text, hits, doc, replies, calls, llm,
                 caught, race, msg, pc>>

\* the clarifier's timer fires: the timeout promise resolves with the static
\* text, and wins the race unless the ask promise has already won it
ClarifyTimerFires ==
  /\ variant = "main"
  /\ ctimer = "armed"
  /\ ctimer' = "fired"
  /\ IF race = "open"
       THEN /\ race' = "timeout"
            /\ msg' = StaticTimeoutText
            /\ pc' = "clarified"
            /\ elapsed' = elapsed + ClarifyBudget
       ELSE UNCHANGED <<race, msg, pc, elapsed>>
  /\ UNCHANGED <<variant, req, hasKey, text, hits, doc, replies, calls, llm,
                 caught>>

\* return res.status(200).json({ response_type: "ephemeral", text: msg })
ReplyClarify ==
  /\ variant = "main"
  /\ pc = "clarified"
  /\ replies' = Append(replies, ClarifyReply(msg))
  /\ pc' = "done"
  /\ UNCHANGED <<variant, req, hasKey, text, hits, doc, msg, calls, llm,
                 ctimer, race, caught, elapsed>>

\* ------------------------------------------ part_001: the early handler
\* a fetch without a timer: the response, or the rejection of fetch
PlainFetch(ev) ==
  IF ev.kind = "response"
    THEN [completion |-> "return", res |-> ev.res, err |-> "", timer |-> "none"]
    ELSE [completion |-> "throw", res |-> NoResponse, err |-> "fetch failed",
          timer |-> "none"]

PlainEvents(events) == {ev \in events : ev.kind # "timeout"}

\* sliteSearch of part_001 followed by search?.hits ?? []
EarlySliteSearch(c) ==
  IF c.completion = "throw" THEN [threw |-> TRUE, err |-> c.err, hits |-> <<>>]
  ELSE IF ~Ok(c.res.status)
    THEN [threw |-> TRUE,
          err |-> IF c.res.status = 404 THEN "Slite search 404" ELSE "Slite search 500",
          hits |-> <<>>]
  ELSE IF c.res.body.json = "unparseable"
    THEN [threw |-> TRUE, err |-> "SyntaxError: Unexpected token", hits |-> <<>>]
  ELSE [threw |-> FALSE, err |-> "", hits |-> HitsOf(c.res.body)]

\* sliteGet of part_001
EarlySliteGet(c) ==
  IF c.completion = "throw" THEN [threw |-> TRUE, err |-> c.err, doc |-> NoDoc]
  ELSE IF ~Ok(c.res.status)
    THEN [threw |-> TRUE,
          err |-> IF c.res.status = 404 THEN "Slite get 404" ELSE "Slite get 500",
          doc |-> NoDoc]
  ELSE IF c.res.body.json = "unparseable"
    THEN [threw |-> TRUE, err |-> "SyntaxError: Unexpected token", doc |-> NoDoc]
  ELSE [threw |-> FALSE, err |-> "", doc |-> DocOf(c.res.body)]

\* what clarifyingMessage of part_001 returns
EarlyClarifyResult(outcome) ==
  CASE outcome = "content" -> LlmText
    [] outcome = "empty" -> Undefined
    [] outcome = "throw" -> EarlyStaticText

\* the generic test, then await sliteSearch(text, 3) whatever its result
EarlyStartSearch ==
  /\ variant = "early"
  /\ pc = "start"
  /\ req.method = "POST"
  /\ parseSlashBody(req).ok
  /\ parseSlashBody(req).text # <<>>
  /\ text' = parseSlashBody(req).text
  /\ calls' = Append(calls, Call("search", "modern", parseSlashBody(req).text, "",
                                 0, "none"))
  /\ pc' = "e_search"
  /\ UNCHANGED <<variant, req, hasKey, hits, doc, msg, replies, llm, ctimer,
                 race, caught, elapsed>>

\* the search fetch settles
EarlySearch ==
  /\ variant = "early"
  /\ pc = "e_search"
  /\ \E ev \in PlainEvents(SearchEvents) :
       LET c == PlainFetch(ev)
           s == EarlySliteSearch(c)
       IN /\ calls' = Settle(calls, ev, c)
          /\ IF s.threw
               THEN CatchAll(s.err) /\ hits' = hits
               ELSE /\ hits' = s.hits
                    /\ pc' = "e_searched"
                    /\ UNCHANGED <<caught, replies>>
  /\ UNCHANGED <<variant, req, hasKey, text, doc, msg, llm, ctimer, race, elapsed>>

\* if (generic || !hits.length): await clarifyingMessage(text)
EarlyClarify ==
  /\ variant = "early"
  /\ pc = "e_searched"
  /\ (IsGeneric(text) \/ hits = <<>>)
  /\ calls' = Append(calls, Call("llm", "chat", text, "", 0, "none"))
  /\ llm' = "pending"
  /\ pc' = "e_clarify"
  /\ UNCHANGED <<variant, req, hasKey, text, hits, doc, msg, replies, ctimer,
                 race, caught, elapsed>>

\* hits[0].noteId throws when the first hit is null
EarlyTopHitNull ==
  /\ variant = "early"
  /\ pc = "e_searched"
  /\ ~(IsGeneric(text) \/ hits = <<>>)
  /\ hits[1].null
  /\ CatchAll("TypeError: Cannot read properties of null")
  /\ UNCHANGED <<variant, req, hasKey, text, hits, doc, msg, calls, llm,
                 ctimer, race, elapsed>>

\* await sliteGet(hits[0].noteId)
EarlyStartGet ==
  /\ variant = "early"
  /\ pc = "e_searched"
  /\ ~(IsGeneric(text) \/ hits = <<>>)
  /\ ~hits[1].null
  /\ calls' = Append(calls, Call("get", "modern", <<>>, hits[1].noteId, 0, "none"))
  /\ pc' = "e_get"
  /\ UNCHANGED <<variant, req, hasKey, text, hits, doc, msg, replies, llm,
                 ctimer, race, caught, elapsed>>

\* the get fetch settles
EarlyGet ==
  /\ variant = "early"
  /\ pc = "e_get"
  /\ \E ev \in PlainEvents(GetEvents) :
       LET c == PlainFetch(ev)
           g == EarlySliteGet(c)
       IN /\ calls' = Settle(calls, ev, c)
          /\ IF g.threw
               THEN CatchAll(g.err) /\ doc' = doc
               ELSE /\ doc' = g.doc
                    /\ pc' = "got"
                    /\ UNCHANGED <<caught, replies>>
  /\ UNCHANGED <<variant, req, hasKey, text, hits, msg, llm, ctimer, race, elapsed>>

\* the chat-completion call settles and the clarifier's text is the reply
EarlyLlmSettles ==
  /\ variant = "early"
  /\ pc = "e_clarify"
  /\ llm = "pending"
  /\ \E o \in LlmOutcomes :
       /\ calls' = SettleLlm(calls, o)
       /\ msg' = EarlyClarifyResult(o)
       /\ replies' = Append(replies, ClarifyReply(EarlyClarifyResult(o)))
  /\ llm' = "settled"
  /\ pc' = "done"
  /\ UNCHANGED <<variant, req, hasKey, text, hits, doc, ctimer, race, caught,
                 elapsed>>

\* ---------------------------------------- part_002: the detached handler
\* res.status(405).send("Method Not Allowed")
DetachedMethodReply ==
  Reply(405, "none", "method", <<"Method Not Allowed">>, "", EmptyStr)

\* the acknowledgment written to the HTTP response
AckReply == Reply(200, "ephemeral", "ack", <<"Got it">>, "", EmptyStr)

\* the text used when the completion has no content
DetachedNoAnswer == <<"Error: I wasn't able to generate an answer.">>

\* data.choices?.[0]?.message?.content?.trim() || the text above
DetachedAnswer(outcome) ==
  IF outcome = "content" THEN LlmText ELSE DetachedNoAnswer

\* a POST to response_url as it is issued: kind is "answer" (in_channel) or
\* "error" (ephemeral)
Delivery(kind) == Call("deliver", kind, <<>>, "", 0, "none")

DeliveryOutcomes == {"responded", "neterr"}

\* the log once the delivery in progress has settled
SettleDelivery(log, o) ==
  [log EXCEPT ![Len(log)] =
     [@ EXCEPT !.outcome = o,
               !.completion = IF o = "neterr" THEN "throw" ELSE "return"]]

\* fetch of an undefined URL rejects
UrlError == "TypeError: Only absolute URLs are supported"

\* if (req.method !== "POST") return the 405
DetachedRejectMethod ==
  /\ variant = "detached"
  /\ pc = "d_start"
  /\ req.method # "POST"
  /\ replies' = Append(replies, DetachedMethodReply)
  /\ pc' = "done"
  /\ UNCHANGED <<variant, req, hasKey, text, hits, doc, msg, calls, llm,
                 ctimer, race, caught, elapsed>>

\* const { text, response_url, user_name } = req.body outside the try: with
\* no body it throws and the handler's promise is rejected
DetachedNoBody ==
  /\ variant = "detached"
  /\ pc = "d_start"
  /\ req.method = "POST"
  /\ req.body.kind = "none"
  /\ pc' = "rejected"
  /\ UNCHANGED <<variant, req, hasKey, text, hits, doc, msg, replies, calls,
                 llm, ctimer, race, caught, elapsed>>

\* step 1: the acknowledgment
DetachedAck ==
  /\ variant = "detached"
  /\ pc = "d_start"
  /\ req.method = "POST"
  /\ req.body.kind # "none"
  /\ replies' = Append(replies, AckReply)
  /\ pc' = "d_acked"
  /\ UNCHANGED <<variant, req, hasKey, text, hits, doc, msg, calls, llm,
                 ctimer, race, caught, elapsed>>

\* step 2: the prompt is built and the chat-completion fetch issued
DetachedAsk ==
  /\ variant = "detached"
  /\ pc = "d_acked"
  /\ calls' = Append(calls, Call("llm", "chat", <<>>, "", 0, "none"))
  /\ llm' = "pending"
  /\ pc' = "d_llm"
  /\ UNCHANGED <<variant, req, hasKey, text, hits, doc, msg, replies, ctimer,
                 race, caught, elapsed>>

\* the chat-completion fetch settles. With a body: step 3, the answer is
\* posted to response_url. With a rejection (of fetch or of json()): the
\* catch block posts the error text. fetch(undefined) rejects at once: in
\* the try it lands in the catch, whose own fetch(undefined) rejects the
\* handler's promise
DetachedLlmSettles ==
  /\ variant = "detached"
  /\ pc = "d_llm"
  /\ llm = "pending"
  /\ llm' = "settled"
  /\ \E o \in LlmOutcomes :
       /\ msg' = IF o = "throw" THEN msg ELSE DetachedAnswer(o)
       /\ IF ResponseUrl(req) = "undefined"
            THEN /\ calls' = SettleLlm(calls, o)
                 /\ caught' = IF o = "throw" THEN "fetch failed" ELSE UrlError
                 /\ pc' = "rejected"
            ELSE /\ calls' = Append(SettleLlm(calls, o),
                                    Delivery(IF o = "throw" THEN "error" ELSE "answer"))
                 /\ caught' = IF o = "throw" THEN "fetch failed" ELSE caught
                 /\ pc' = IF o = "throw" THEN "d_deliver_err" ELSE "d_deliver"
  /\ UNCHANGED <<variant, req, hasKey, text, hits, doc, replies, ctimer, race,
                 elapsed>>

\* the answer's POST settles: the handler returns, or the rejection lands in
\* the catch block, which posts the error text
DetachedDeliverSettles ==
  /\ variant = "detached"
  /\ pc = "d_deliver"
  /\ \E o \in DeliveryOutcomes :
       IF o = "responded"
         THEN /\ calls' = SettleDelivery(calls, o)
              /\ pc' = "done"
              /\ caught' = caught
         ELSE /\ calls' = Append(SettleDelivery(calls, o), Delivery("error"))
              /\ pc' = "d_deliver_err"
              /\ caught' = "fetch failed"
  /\ UNCHANGED <<variant, req, hasKey, text, hits, doc, msg, replies, llm,
                 ctimer, race, elapsed>>

\* the error text's POST settles: the handler returns, or its promise is
\* rejected by the rejection inside the catch block
DetachedErrorDeliverSettles ==
  /\ variant = "detached"
  /\ pc = "d_deliver_err"
  /\ \E o \in DeliveryOutcomes :
       /\ calls' = SettleDelivery(calls, o)
       /\ pc' = IF o = "responded" THEN "done" ELSE "rejected"
  /\ UNCHANGED <<variant, req, hasKey, text, hits, doc, msg, replies, llm,
                 ctimer, race, caught, elapsed>>

\* --------------------------------------------------------- specification
Next ==
  \/ RejectMethod
  \/ ParseFails
  \/ ReplyUsage
  \/ StartGeneric
  \/ StartSearch
  \/ SearchModern
  \/ SearchLegacy
  \/ ClarifyNoHits
  \/ TopHitNull
  \/ StartGet
  \/ GetModern
  \/ GetLegacy
  \/ FormatFails
  \/ ReplyTop
  \/ LlmSettles
  \/ ClarifyTimerFires
  \/ ReplyClarify
  \/ EarlyStartSearch
  \/ EarlySearch
  \/ EarlyClarify
  \/ EarlyTopHitNull
  \/ EarlyStartGet
  \/ EarlyGet
  \/ EarlyLlmSettles
  \/ DetachedRejectMethod
  \/ DetachedNoBody
  \/ DetachedAck
  \/ DetachedAsk
  \/ DetachedLlmSettles
  \/ DetachedDeliverSettles
  \/ DetachedErrorDeliverSettles

Spec == Init /\ [][Next]_vars

\* every step of the handler is scheduled, and every armed timer fires; the
\* backends owe no answer, so LlmSettles and the early variant's fetches
\* carry no fairness
Scheduled ==
  \/ RejectMethod
  \/ ParseFails
  \/ ReplyUsage
  \/ StartGeneric
  \/ StartSearch
  \/ SearchModern
  \/ SearchLegacy
  \/ ClarifyNoHits
  \/ TopHitNull
  \/ StartGet
  \/ GetModern
  \/ GetLegacy
  \/ FormatFails
  \/ ReplyTop
  \/ ClarifyTimerFires
  \/ ReplyClarify
  \/ DetachedRejectMethod
  \/ DetachedNoBody
  \/ DetachedAck
  \/ DetachedAsk

FairSpec == Spec /\ WF_vars(Scheduled)

TypeOK ==
  /\ variant \in Variants
  /\ req \in Requests \cup DetachedRequests
  /\ text \in Texts
  /\ hits \in HitLists
  /\ elapsed \in Nat

\* ---------------------------------------------------------------- claims
MainPost == variant = "main" /\ req.method = "POST"
Done == pc = "done"

\* C1: every POST request handled by the main handler ends, whatever the
\* backends do, with exactly one reply emitted: never two replies at any
\* time, and eventually the handler is done with one reply for good.
C1_ExactlyOneReply ==
  /\ [](MainPost => Len(replies) <= 1)
  /\ <>[](MainPost => (Done /\ Len(replies) = 1))

\* C1 witness: total backend outage (both search endpoints fail, the model
\* call never settles) and the handler is done with its one reply.
C1_Witness ==
  /\ MainPost
  /\ Done
  /\ Len(replies) = 1
  /\ Len(calls) = 3
  /\ calls[1].outcome = "timeout"
  /\ calls[2].outcome = "neterr"
  /\ calls[3].outcome = "pending"

\* ------------------------------------------------ vocabulary of the claims
SearchCalls == {i \in DOMAIN calls : calls[i].svc = "search"}
GetCalls == {i \in DOMAIN calls : calls[i].svc = "get"}
LlmCalls == {i \in DOMAIN calls : calls[i].svc = "llm"}

\* a step of the handler threw: the body's text is not a string, the first
\* hit is null, or the document body is not a string
Failed ==
  \/ ~parseSlashBody(req).ok
  \/ (hits # <<>> /\ hits[1].null)
  \/ MdOf(doc).k = "nonstr"

\* C2: in the main handler a failure thrown after the method check ends as
\* one private reply with status 200 whose text includes the failure's
\* message; no reply of a POST has another status.
C2_FailureBecomesErrorReply ==
  MainPost =>
    /\ \A i \in DOMAIN replies : replies[i].status = 200
    /\ (Done /\ Failed) =>
         /\ Len(replies) = 1
         /\ replies[1].response_type = "ephemeral"
         /\ replies[1].kind = "error"
         /\ caught # ""
         /\ \E j \in DOMAIN replies[1].msg : replies[1].msg[j] = caught

\* C2 witness: the first hit is null, and the reply is the error reply.
C2_Witness ==
  /\ MainPost
  /\ Done
  /\ hits # <<>>
  /\ hits[1].null
  /\ replies[1].kind = "error"
  /\ replies[1].status = 200

\* the outcomes of a search call that are failures of the backend: network
\* error, timeout, status 404 or 500, a body that is not JSON, a body
\* whose hits are not an array
FailureOutcomes == {"neterr", "timeout", "404", "500", "unparseable", "nohits"}

SearchFailed ==
  /\ SearchCalls # {}
  /\ \A i \in SearchCalls : calls[i].outcome \in FailureOutcomes

ClarifierTexts == {StaticTimeoutText, StaticCatchText, StaticShort, LlmText}

\* C3: in the main handler, when every search call made has failed, the
\* search counts as zero hits: no error is caught, no document is fetched,
\* and the reply is the clarifier's text.
C3_SearchFailureIsZeroHits ==
  (MainPost /\ SearchFailed) =>
    /\ hits = <<>>
    /\ caught = ""
    /\ GetCalls = {}
    /\ pc \in {"searched", "clarify_wait", "clarified", "done"}
    /\ Done =>
         /\ Len(replies) = 1
         /\ replies[1].status = 200
         /\ replies[1].kind = "clarify"
         /\ replies[1].msg = msg
         /\ msg \in ClarifierTexts

\* C3 witness: the modern endpoint fails on the network, the legacy one
\* times out, and the reply is the clarifier's.
C3_Witness ==
  /\ MainPost
  /\ Done
  /\ Len(calls) >= 2
  /\ calls[1].outcome = "neterr"
  /\ calls[2].outcome = "timeout"
  /\ replies[1].kind = "clarify"

\* the text field of the body is absent or a string of whitespace only
BlankQuery ==
  /\ req.body.text.k # "array"
  /\ \A i \in DOMAIN req.body.text.v : req.body.text.v[i] = "sp"

\* C4: in the handlers that parse the query (index.js and part_001), a POST
\* whose query text is empty or whitespace only makes no search, get or model
\* call and arms no timer, and its reply is the usage reply.
C4_BlankQueryUsageNoCalls ==
  (variant \in {"main", "early"} /\ req.method = "POST" /\ BlankQuery) =>
    /\ calls = <<>>
    /\ ctimer = "none"
    /\ llm = "idle"
    /\ pc \in {"start", "done"}
    /\ Done =>
         /\ Len(replies) = 1
         /\ replies[1].status = 200
         /\ replies[1].response_type = "ephemeral"
         /\ replies[1].kind = "usage"

\* C4 witness: a query of two spaces got the usage reply.
C4_Witness ==
  /\ variant \in {"main", "early"}
  /\ req.method = "POST"
  /\ req.body.text = StrField(<<"sp", "sp">>)
  /\ Done
  /\ replies[1].kind = "usage"

\* C5: in each variant with a clarifier, a query that matches a generic
\* phrase makes no search call, and its reply is the clarifier's text.
C5_GenericBypassesSearch ==
  (/\ req.method = "POST"
   /\ parseSlashBody(req).ok
   /\ IsGeneric(parseSlashBody(req).text)) =>
    /\ SearchCalls = {}
    /\ Done => replies[1].kind = "clarify"

\* the search of the main handler has returned
SearchReturned ==
  /\ SearchCalls # {}
  /\ pc \notin {"start", "search_modern", "search_legacy"}

\* C6: in the main handler, once the search has returned zero hits the
\* clarifier is invoked, no document is ever fetched, and the reply is the
\* clarifier's.
C6_ZeroHitsClarifierNoFetch ==
  (MainPost /\ SearchReturned /\ hits = <<>>) =>
    /\ GetCalls = {}
    /\ doc = NoDoc
    /\ pc \in {"searched", "clarify_wait", "clarified", "done"}
    /\ pc # "searched" => (ctimer # "none" /\ race # "none")
    /\ Done => (Len(replies) = 1 /\ replies[1].kind = "clarify")

\* C6 witness: the backend answered 200 with an empty hit array, and the
\* reply is the clarifier's.
C6_Witness ==
  /\ MainPost
  /\ Done
  /\ hits = <<>>
  /\ Len(calls) >= 1
  /\ calls[1].outcome = "hits"
  /\ replies[1].kind = "clarify"

\* no whitespace other than single spaces that follow a word character or
\* start the string
Collapsed(s) ==
  \A i \in DOMAIN s :
    s[i].c \in WsClasses =>
      /\ s[i].c = "sp"
      /\ s[i].n = 1
      /\ IF i = 1 THEN TRUE ELSE s[i - 1].c \notin WsClasses

Min(a, b) == IF a <= b THEN a ELSE b

\* C7 as stated: with one or more hits the first hit's document is fetched
\* and the reply has the returned title and an excerpt of at most 280
\* characters, whitespace collapsed, followed by the ellipsis.
C7_TopMatchAlways ==
  (MainPost /\ Done /\ hits # <<>>) =>
    /\ GetCalls # {}
    /\ \A i \in GetCalls : calls[i].noteId = hits[1].noteId
    /\ Len(replies) = 1
    /\ replies[1].kind = "top"
    /\ replies[1].title = doc.note.title
    /\ replies[1].ellipsis
    /\ StrLen(replies[1].snippet) <= SnippetCap
    /\ Collapsed(replies[1].snippet)

\* C7 amended: with one or more hits of which the first is not null, only
\* the first hit's document is fetched; unless the body is not a string
\* (error reply) the reply is the top-match reply with the returned title,
\* or "Document" without one, and an excerpt of at most 280 characters with
\* whitespace collapsed, which is there with its ellipsis exactly when the
\* body is not empty.  A null first hit gives the error reply and no fetch.
C7_TopMatchWhenFetched ==
  /\ (MainPost /\ Done /\ hits # <<>> /\ hits[1].null) =>
       (GetCalls = {} /\ Len(replies) = 1 /\ replies[1].kind = "error")
  /\ (MainPost /\ Done /\ hits # <<>> /\ ~hits[1].null) =>
    /\ GetCalls # {}
    /\ \A i \in GetCalls : calls[i].noteId = hits[1].noteId
    /\ Len(replies) = 1
    /\ IF MdOf(doc).k = "nonstr"
         THEN replies[1].kind = "error"
         ELSE /\ replies[1].kind = "top"
              /\ replies[1].title =
                   (IF ~doc.null /\ doc.note.title # "" THEN doc.note.title
                    ELSE "Document")
              /\ StrLen(replies[1].snippet) <= SnippetCap
              /\ StrLen(replies[1].snippet) =
                   Min(SnippetCap, StrLen(Collapse(MdOf(doc).s)))
              /\ Collapsed(replies[1].snippet)
              /\ replies[1].ellipsis <=> (StrLen(MdOf(doc).s) > 0)

\* C7 witness: the second of two hits is another note, the body is longer
\* than the cap and has whitespace runs, and the excerpt has 280 characters.
C7_Witness ==
  /\ MainPost
  /\ Done
  /\ Len(hits) = 2
  /\ hits[1].noteId = "n1"
  /\ hits[2].noteId = "n2"
  /\ replies[1].kind = "top"
  /\ replies[1].title = "SOP"
  /\ replies[1].ellipsis
  /\ StrLen(MdOf(doc).s) > SnippetCap
  /\ ~Collapsed(MdOf(doc).s)
  /\ StrLen(replies[1].snippet) = SnippetCap

RECURSIVE BudgetSum(_)
BudgetSum(log) ==
  IF log = <<>> THEN 0 ELSE Head(log).budget + BudgetSum(Tail(log))

\* C8: in the main handler the budgets of the backend calls of one request
\* add up to less than the platform's deadline, and so does the time the
\* handler waits.
C8_WithinDeadline ==
  variant = "main" =>
    /\ BudgetSum(calls) < PlatformDeadline
    /\ elapsed < PlatformDeadline

\* C9 as stated: a call of fetchWithTimeout never completes by throwing.
C9_NeverThrows ==
  \A i \in DOMAIN calls :
    (variant = "main" /\ calls[i].svc \in {"search", "get"}) =>
      calls[i].completion # "throw"

\* C9 amended: fetchWithTimeout returns the response unchanged when one
\* arrives before the budget; when the budget elapses first it throws the
\* timeout error, and a network error it throws too; sliteSearch and
\* sliteGet catch both, so neither reaches the handler's catch.
C9_ReturnsOrThrowsToCaller ==
  variant = "main" =>
    /\ \A i \in SearchCalls \cup GetCalls :
         /\ calls[i].outcome \notin {"pending", "neterr", "timeout"} =>
              /\ calls[i].completion = "return"
              /\ calls[i].res = calls[i].sent
              /\ calls[i].res # NoResponse
         /\ calls[i].outcome = "timeout" =>
              /\ calls[i].completion = "throw"
              /\ calls[i].err = "timeout"
         /\ calls[i].outcome = "neterr" => calls[i].completion = "throw"
    /\ caught \notin {"timeout", "fetch failed"}

\* C9 witness: a search call timed out and threw, and the handler replied
\* with the clarifier's text.
C9_Witness ==
  /\ MainPost
  /\ Done
  /\ Len(calls) >= 2
  /\ calls[2].outcome = "timeout"
  /\ calls[2].completion = "throw"
  /\ replies[1].kind = "clarify"

LlmThrew == \E i \in LlmCalls : calls[i].outcome = "throw"

\* C10: when the credential is absent or the model call throws, the text
\* clarifyingMessage returns is the static text with its seven options, the
\* same text that the timeout resolves with.
C10_StaticFallbackOnThrowOrNoKey ==
  (/\ variant = "main"
   /\ pc \in {"clarified", "done"}
   /\ race # "none"
   /\ (hasKey = "unset" \/ LlmThrew)) =>
    /\ msg = StaticTimeoutText
    /\ Len(msg) = 8
    /\ Done => (Len(replies) = 1 /\ replies[1].msg = StaticTimeoutText)

\* C10 witness: the model call threw before the timer fired and the reply
\* is the static text.
C10_Witness ==
  /\ variant = "main"
  /\ Done
  /\ race = "ask"
  /\ LlmThrew
  /\ replies[1].msg = StaticTimeoutText

\* clarifyingMessage has returned its text to the handler
ClarifierReturned ==
  \/ /\ variant = "main"
     /\ pc \in {"clarified", "done"}
     /\ race # "none"
  \/ /\ variant = "early"
     /\ Done
     /\ llm = "settled"

\* C11: whatever the model call does (a completion without usable text
\* included), the text clarifyingMessage returns is either the model's
\* non-empty completion or the full static text with its option list.
C11_CompletionOrFullFallback ==
  ClarifierReturned => msg \in {LlmText, StaticTimeoutText, EarlyStaticText}

GetFailureOutcomes == {"neterr", "timeout", "404", "500", "unparseable"}

\* every get call made has ended in a failure
GetFailed ==
  /\ GetCalls # {}
  /\ \A i \in GetCalls : calls[i].outcome \in GetFailureOutcomes

\* C12: in the main handler, when every get call made has failed (network
\* error, timeout, 404, another non-success status, unparseable body),
\* sliteGet has returned null without throwing: no error is caught, and the
\* reply is the top-match reply with the title "Document" and no excerpt.
C12_FetchFailureIsNullDocument ==
  (MainPost /\ GetFailed) =>
    /\ pc \in {"got", "done"}
    /\ doc = NoDoc
    /\ caught = ""
    /\ Done =>
         /\ Len(replies) = 1
         /\ replies[1].kind = "top"
         /\ replies[1].status = 200
         /\ replies[1].title = "Document"
         /\ replies[1].snippet = EmptyStr
         /\ ~replies[1].ellipsis

\* C12 witness: the modern get answered 404, the legacy get timed out, and
\* the reply is the top-match reply titled "Document".
C12_Witness ==
  /\ MainPost
  /\ Done
  /\ \E i \in GetCalls : calls[i].endpoint = "modern" /\ calls[i].outcome = "404"
  /\ \E i \in GetCalls : calls[i].endpoint = "legacy" /\ calls[i].outcome = "timeout"
  /\ replies[1].kind = "top"
  /\ replies[1].title = "Document"

\* C14: no reply of the main handler is visible to the channel, and each of
\* its replies with a payload (usage, clarifier, top match, error) is
\* ephemeral.
C14_AllRepliesEphemeral ==
  variant = "main" =>
    \A i \in DOMAIN replies :
      /\ replies[i].response_type # "in_channel"
      /\ replies[i].kind \in {"usage", "clarify", "top", "error"} =>
           replies[i].response_type = "ephemeral"
      /\ req.method = "POST" =>
           replies[i].kind \in {"usage", "clarify", "top", "error"}

\* C14 witness: a top-match reply with an excerpt has been emitted, ephemeral.
C14_Witness ==
  /\ MainPost
  /\ Done
  /\ Len(replies) = 1
  /\ replies[1].kind = "top"
  /\ replies[1].ellipsis
  /\ replies[1].response_type = "ephemeral"

\* the modern search call has settled
ModernSearchSettled ==
  /\ variant = "main"
  /\ SearchCalls # {}
  /\ calls[1].endpoint = "modern"
  /\ calls[1].outcome # "pending"

LegacySearchCalled == \E i \in SearchCalls : calls[i].endpoint = "legacy"

\* C15 as stated: the legacy search endpoint is called exactly when the
\* modern one answered 404; any other failure of the modern call gives zero
\* hits without a second call.
C15_LegacyOnlyAfter404 ==
  ModernSearchSettled => (LegacySearchCalled <=> calls[1].outcome = "404")

\* the failures of the modern search call after which sliteSearch tries the
\* legacy endpoint: 404, and what its catch block catches (rejection of the
\* fetch by network error or timeout, rejection of r.json())
FallThroughOutcomes == {"404", "neterr", "timeout", "unparseable"}

\* C15 amended: the legacy search endpoint is called exactly when the modern
\* call answered 404, was rejected (network error, timeout) or had a body
\* that does not parse; after another non-success status or a payload
\* without a hit array the result is zero hits with no second call, and
\* after a parsed success the result is the payload's hits with no second
\* call.
C15_LegacyAfter404OrThrow ==
  ModernSearchSettled =>
    /\ LegacySearchCalled <=> calls[1].outcome \in FallThroughOutcomes
    /\ Cardinality(SearchCalls) <= 2
    /\ calls[1].outcome \in {"500", "nohits"} =>
         (pc \in {"searched", "clarify_wait", "clarified", "done"} /\ hits = <<>>)
    /\ calls[1].outcome = "hits" => hits = calls[1].sent.body.hits

\* C15 witness: the modern search timed out, the legacy search was called
\* and its hits are the result.
C15_Witness ==
  /\ ModernSearchSettled
  /\ calls[1].outcome = "timeout"
  /\ Len(calls) >= 2
  /\ calls[2].endpoint = "legacy"
  /\ calls[2].outcome = "hits"
  /\ hits # <<>>
  /\ hits = calls[2].sent.body.hits

\* C16: in the main handler a request that issued a get call never issues a
\* chat-completion call nor arms the clarifier, and its top-match reply is
\* made of the fetched document's title and excerpt and of fixed strings.
C16_AnswerPathWithoutModel ==
  variant = "main" =>
    /\ GetCalls = {} \/ LlmCalls = {}
    /\ GetCalls # {} =>
         /\ hits # <<>>
         /\ llm = "idle"
         /\ ctimer = "none"
         /\ race = "none"
         /\ msg = <<>>
    /\ \A i \in DOMAIN replies :
         replies[i].kind = "top" =>
           /\ replies[i].msg = <<>>
           /\ replies[i].title = TitleOf(doc)
           /\ replies[i].snippet = Snippet(MdOf(doc).s)

\* C16 witness: a document was fetched and the top-match reply emitted
\* without any chat-completion call or read of the credential.
C16_Witness ==
  /\ MainPost
  /\ Done
  /\ \E i \in GetCalls : calls[i].outcome = "note"
  /\ LlmCalls = {}
  /\ hasKey = "unread"
  /\ replies[1].kind = "top"
  /\ replies[1].title # "Document"

\* the handler is suspended on await clarifyingMessage(text, 1400)
ClarifierWaiting == variant = "main" /\ pc = "clarify_wait"

\* C17: while the handler waits for the clarifier its timer is armed; the
\* wait always ends with the clarifier's text returned, whether the model
\* call succeeds, fails or never settles; and the wait costs at most the
\* budget.
C17_ClarifierReturnsWithinBudget ==
  /\ [](ClarifierWaiting => (ctimer = "armed" /\ race = "open" /\ llm = "pending"))
  /\ (ClarifierWaiting ~> (variant = "main" /\ pc = "clarified"))
  /\ [][ClarifierWaiting =>
          /\ pc' \in {"clarify_wait", "clarified"}
          /\ pc' = "clarified" =>
               /\ race' \in {"ask", "timeout"}
               /\ elapsed' <= elapsed + ClarifyBudget
               /\ msg' \in ClarifierTexts]_vars

\* C17 witness: the timer won the race while the model call was still
\* pending, and the clarifier returned after its budget.
C17_Witness ==
  /\ variant = "main"
  /\ pc = "clarified"
  /\ race = "timeout"
  /\ llm = "pending"
  /\ ctimer = "fired"
  /\ elapsed >= ClarifyBudget
  /\ msg = StaticTimeoutText

\* the calls made through fetchWithTimeout
TimedCalls == {i \in DOMAIN calls : calls[i].svc \in {"search", "get"}}

\* C18: in the main handler, once a call to fetchWithTimeout has returned or
\* thrown its timer is no longer armed: it was cleared, or it had fired and
\* its abort is what the call threw; and nothing changes a completed call
\* afterwards.
C18_TimerReleasedOnCompletion ==
  /\ [](variant = "main" =>
         \A i \in TimedCalls :
           /\ calls[i].completion = "pending" => calls[i].timer = "armed"
           /\ calls[i].completion # "pending" =>
                /\ calls[i].timer \in {"cleared", "fired"}
                /\ calls[i].timer = "fired" <=> calls[i].err = "timeout"
                /\ calls[i].timer = "fired" => calls[i].completion = "throw")
  /\ [][variant = "main" =>
         \A i \in TimedCalls :
           calls[i].completion # "pending" =>
             (i \in DOMAIN calls' /\ calls'[i] = calls[i])]_vars

\* C18 witness: one call threw on a network error and one returned a
\* response, and the timer of each is cleared.
C18_Witness ==
  /\ variant = "main"
  /\ \E i \in TimedCalls :
       /\ calls[i].completion = "throw"
       /\ calls[i].err = "fetch failed"
       /\ calls[i].timer = "cleared"
  /\ \E i \in TimedCalls :
       /\ calls[i].completion = "return"
       /\ calls[i].timer = "cleared"

\* the timer won the clarifier's race and the model call settled afterwards
LateCompletion ==
  /\ variant = "main"
  /\ race = "timeout"
  /\ llm = "settled"

\* C20: in the main handler, when the timer has won the clarifier's race the
\* text returned and replied is the static text, whether or not the model
\* call settles later; the late settlement changes neither the text, the
\* reply nor the handler's position, no error is caught, and there is never
\* a second reply.
C20_LateCompletionDiscarded ==
  /\ [](variant = "main" /\ race = "timeout" =>
         /\ pc \in {"clarified", "done"}
         /\ msg = StaticTimeoutText
         /\ caught = ""
         /\ Len(replies) <= 1
         /\ Done => (Len(replies) = 1 /\ replies[1] = ClarifyReply(StaticTimeoutText)))
  /\ [][(variant = "main" /\ race = "timeout" /\ llm = "pending" /\ llm' = "settled") =>
         UNCHANGED <<msg, replies, pc, race, caught, ctimer>>]_vars

\* C20 witness: the static text was replied after the timeout and the model
\* call settled later with a completion.
C20_Witness ==
  /\ LateCompletion
  /\ Done
  /\ \E i \in LlmCalls : calls[i].outcome = "content"
  /\ Len(replies) = 1
  /\ replies[1].msg = StaticTimeoutText

DeliverCalls == {i \in DOMAIN calls : calls[i].svc = "deliver"}

Acked == \E i \in DOMAIN replies : replies[i].kind = "ack"

\* a parsed body without a response_url
NoCallback ==
  /\ variant = "detached"
  /\ req.method = "POST"
  /\ req.body.kind = "object"
  /\ ~req.body.callback

\* C13: in the detached handler a request without a callback reference is
\* acknowledged and processed, no delivery is attempted, and the handler's
\* promise is never rejected.
C13_MissingCallbackTolerated ==
  NoCallback =>
    /\ pc # "rejected"
    /\ DeliverCalls = {}
    /\ pc # "d_start" => Acked

\* the ordering half of C19: a chat-completion call or a delivery is only
\* ever issued once the acknowledgment is on the HTTP response, and a
\* delivery only once the chat-completion call has settled
C19_AckPrecedesCalls ==
  [][variant = "detached" =>
       /\ LlmCalls' # LlmCalls => Acked
       /\ DeliverCalls' # DeliverCalls => (Acked /\ llm' = "settled")
       /\ Len(replies') <= 1]_vars

\* a parsed body with a response_url, acknowledged
AckedWithCallback ==
  /\ variant = "detached"
  /\ Acked
  /\ ResponseUrl(req) # "undefined"

\* C19: in the detached handler the acknowledgment precedes every
\* chat-completion call and every delivery, and every acknowledged request
\* that supplied a callback reference is eventually followed by a delivery
\* to it.
C19_AckThenEventualDelivery ==
  /\ C19_AckPrecedesCalls
  /\ (AckedWithCallback ~> (DeliverCalls # {}))

====
